---- MODULE Spec2Model ----
(***************************************************************************)
(* State-machine model of the EM-1 espresso brew controller (v1.0.2):      *)
(*   hardware/motor.py        Motor (PIO pulse actuator)                   *)
(*   utils/pid.py             PID regulator                                *)
(*   utils/profile_handler.py profile interpreter                          *)
(*   utils/control.py         BrewController (fixed-period brew loop)      *)
(*                                                                         *)
(* Numbers.  Python floats (pressure in bar, PID output, motor speed in    *)
(* steps/s) are fixed-point integers with denominator Scale: 3.0 bar is    *)
(* 3 * Scale.  Times are integer milliseconds, PIO frequencies integer Hz. *)
(* The scenarios below are chosen so that every division the code makes is *)
(* exact; binary floating-point rounding is outside the model.             *)
(* Optional values (Python None) are sequences: None is <<>>, a value v is *)
(* <<v>>.                                                                  *)
(***************************************************************************)
EXTENDS Integers, Sequences, FiniteSets, TLC

VARIABLES
    scen,                   \* the test scenario: profile, PID parameters, sensor scripts
    now,                    \* utime.ticks_ms(): wrapping millisecond clock
    en_pin,                 \* Motor.en_pin   (1 = driver disabled, 0 = enabled)
    dir_pin,                \* Motor.dir_pin
    sm_active,              \* Motor.sm: 1 while the PIO state machine emits pulses
    sm_freq,                \* Motor.sm: frequency last programmed with success
    mpc,                    \* position inside the running Motor method
    m_op,                   \* the Motor method called last
    m_caller,               \* who called it: "harness" or "brew"
    m_speed,                \* set_speed argument speed
    m_direction,            \* set_speed argument direction (optional)
    pio_frequency,          \* set_speed local: frequency handed to sm.init
    entry_state,            \* <<en_pin, sm_active>> when the Motor method was entered
    integral_sum,           \* PID.integral_sum
    previous_error,         \* PID.previous_error
    shot_log,               \* BrewController.shot_log
    pc,                     \* position of execute_brew
    start_time,             \* execute_brew local
    current_loop_time_ms,   \* execute_brew loop variable
    next_tick,              \* execute_brew local
    tick_start,             \* ticks_ms() when the current loop iteration began
    target_pressure,        \* do_brew_cycle local (optional)
    current_pressure,       \* do_brew_cycle local
    current_temp,           \* do_brew_cycle local (optional)
    pid_output,             \* do_brew_cycle local: what PID.update returned
    reads,                  \* number of sensor reads made so far (index into the scripts)
    brews,                  \* number of execute_brew calls started
    log_base,               \* Len(shot_log) when the running execute_brew was entered
    exc,                    \* what raised out of execute_brew: "none", "profile", "pid", "set_speed"
    cancel_requested,       \* the operator has asked to abort the running brew
    limit_switch,           \* level of the homing limit switch pin (1 = open, 0 = pressed)
    polls                   \* sleeps the running Motor.home has made in its wait loop

motor_vars == <<en_pin, dir_pin, sm_active, sm_freq>>
call_vars  == <<mpc, m_op, m_caller, m_speed, m_direction, pio_frequency, entry_state>>
pid_vars   == <<integral_sum, previous_error>>
cycle_vars == <<target_pressure, current_pressure, current_temp, pid_output, reads>>
loop_vars  == <<pc, start_time, current_loop_time_ms, next_tick, tick_start,
                   brews, log_base, exc>>
home_vars  == <<limit_switch, polls>>

vars == <<scen, now, motor_vars, call_vars, pid_vars, shot_log, cycle_vars, loop_vars,
          cancel_requested, home_vars>>

----------------------------------------------------------------------------
(* Fixed point and optional values *)

Scale == 10 * 100

None == <<>>
Some(v) == <<v>>
Val(o) == o[1]

Abs(x) == IF x < 0 THEN 0 - x ELSE x
Min(a, b) == IF a < b THEN a ELSE b
Max(a, b) == IF a > b THEN a ELSE b

\* A call's outcome: a returned value or a raised exception.
Ok(v) == [raised |-> FALSE, value |-> v]
Raised == [raised |-> TRUE, value |-> None]

----------------------------------------------------------------------------
(* Bounds of the model *)

\* utime.ticks_ms() wraps to 0 at this value (MicroPython's TICKS_PERIOD).
TicksPeriod == 2 ^ 30
\* execute_brew is called at most this often on one controller.
MaxBrews == 2

----------------------------------------------------------------------------
(* utils/profile_handler.py *)

\* One entry of profile_points: [duration, interpolation, pressure, final pressure].
\* A hold stage has no final pressure; its p_final is not read.
Hold(d, p) == [duration |-> d, interpolation |-> "hold", p_init |-> p, p_final |-> p]
Linear(d, p0, p1) == [duration |-> d, interpolation |-> "linear", p_init |-> p0, p_final |-> p1]

\* A ramp measured from the start of the brew instead of the start of its stage.
CalculateLinearFromBrewStart(initial_pressure, final_pressure, duration, t, time_elapsed) ==
    IF duration = 0 THEN initial_pressure
    ELSE ((final_pressure - initial_pressure) * t) \div duration + initial_pressure

\* slope = (final - initial) / duration; pressure = slope * x + initial
CalculateLinear(initial_pressure, final_pressure, duration, t, time_elapsed) ==
    IF duration = 0 THEN initial_pressure
    ELSE ((final_pressure - initial_pressure) * (t - time_elapsed)) \div duration
         + initial_pressure

\* A fall-through that gives the last stage's start pressure, ramp or not.
LastStageValueStart(stages) ==
    LET last_stage == stages[Len(stages)]
    IN  last_stage.p_init

\* A fall-through that looks at the first stage instead of the last.
LastStageValueOfFirst(stages) ==
    LET last_stage == stages[1]
    IN  IF last_stage.interpolation = "hold" THEN last_stage.p_init ELSE last_stage.p_final

\* The fall-through after the for loop: the last stage's terminal value.
LastStageValue(stages) ==
    LET last_stage == stages[Len(stages)]
    IN  IF last_stage.interpolation = "hold" THEN last_stage.p_init ELSE last_stage.p_final

\* A walk whose stages own their start instant instead of their end instant.
RECURSIVE WalkStagesLeftClosed(_, _, _, _)
WalkStagesLeftClosed(stages, i, time_at_start, t) ==
    IF i > Len(stages) THEN LastStageValue(stages)
    ELSE LET st == stages[i]
             time_at_end == time_at_start + st.duration
         IN  IF t >= time_at_start /\ t < time_at_end /\ st.interpolation = "hold"
             THEN st.p_init
             ELSE IF t >= time_at_start /\ t < time_at_end /\ st.interpolation = "linear"
             THEN CalculateLinear(st.p_init, st.p_final, st.duration, t, time_at_start)
             ELSE WalkStagesLeftClosed(stages, i + 1, time_at_end, t)

\* The for loop over profile_stages from stage i on, time_at_start accumulated.
RECURSIVE WalkStages(_, _, _, _)
WalkStages(stages, i, time_at_start, t) ==
    IF i > Len(stages) THEN LastStageValue(stages)
    ELSE LET st == stages[i]
             time_at_end == time_at_start + st.duration
         IN  IF t > time_at_start /\ t <= time_at_end /\ st.interpolation = "hold"
             THEN st.p_init
             ELSE IF t > time_at_start /\ t <= time_at_end /\ st.interpolation = "linear"
             THEN CalculateLinear(st.p_init, st.p_final, st.duration, t, time_at_start)
             ELSE WalkStages(stages, i + 1, time_at_end, t)

\* get_target_at_time: Ok(None) is the `return None` of line 27; an empty stage
\* list raises IndexError (profile_stages[0] at 0, profile_stages[-1] later).
GetTargetAtTime(stages, t) ==
    IF Len(stages) = 0 THEN Raised
    ELSE IF t = 0
    THEN (IF stages[1].duration = 0 THEN Ok(Some(stages[1].p_init)) ELSE Ok(None))
    ELSE Ok(Some(WalkStages(stages, 1, 0, t)))

----------------------------------------------------------------------------
(* utils/pid.py *)

\* The error PID.update works on.  `if target:` is false for None and for 0;
\* the fallback subtracts from set_point, a TypeError when set_point is None.
PidError(params, current_value, target) ==
    IF target # None /\ Val(target) # 0 THEN Ok(Val(target) - current_value)
    ELSE IF params.set_point = None THEN Raised
    ELSE Ok(Val(params.set_point) - current_value)

\* An accumulator with no upper limit.
PidIntegralNoCeiling(params, integral, error) ==
    Max(params.negative_wind_up, error + integral)

\* integral_sum after one update with this error (anti-windup clamp).
PidIntegral(params, integral, error) ==
    Max(params.negative_wind_up, Min(error + integral, params.positive_wind_up))

\* p_term + i_term + d_term; dt is given by its reciprocal dt_inv.
PidOutput(params, integral, prev_error, error) ==
    error * params.p_const
    + (integral * params.i_const) \div params.dt_inv
    + (error - prev_error) * params.d_const * params.dt_inv

\* PID.update on the state <<integral, prev_error>>: the new state and the output.
PidUpdate(params, integral, prev_error, current_value, target) ==
    LET e == PidError(params, current_value, target)
    IN  IF e.raised THEN Raised
        ELSE LET i2 == PidIntegral(params, integral, e.value)
             IN  Ok([integral_sum |-> i2,
                     previous_error |-> e.value,
                     output |-> PidOutput(params, i2, prev_error, e.value)])

----------------------------------------------------------------------------
(* hardware/motor.py: pure parts *)

CYCLES_PER_PULSE == 2
MIN_PIO_FREQ == 2000
\* freq=10000 placeholder of the constructor
INIT_PIO_FREQ == 10000

\* convert_pid_to_speed
ConvertPidToSpeed(pid_input) == pid_input * 10

\* Mutant of PioFrequency: the clamp to MIN_PIO_FREQ is missing.
PioFrequencyNoClamp(speed) == (Abs(speed) * CYCLES_PER_PULSE) \div Scale

\* pio_frequency = int(abs(speed) * _CYCLES_PER_PULSE), clamped from below
PioFrequency(speed) ==
    LET f == (Abs(speed) * CYCLES_PER_PULSE) \div Scale
    IN  IF f < MIN_PIO_FREQ THEN MIN_PIO_FREQ ELSE f

\* A direction taken from the sign of speed alone.
DirectionBySign(speed, direction) ==
    IF speed < 0 THEN 1 ELSE 0

\* dir_pin value chosen by set_speed
Direction(speed, direction) ==
    IF direction # None THEN Val(direction)
    ELSE IF speed < 0 THEN 1 ELSE 0

----------------------------------------------------------------------------
(* Test scenarios: the profile a load_profile call leaves in the handler,   *)
(* the pid_parameters given to BrewController, and stub sensors that        *)
(* replay a script of readings, one entry per tick, cyclically.             *)

Profile(step, total, stages) ==
    [time_step_ms |-> step, duration |-> total, profile_stages |-> stages]

\* tick period 100 ms, 2000 ms, one stage Hold(2000 ms, 3.0 bar)
HoldProfile == Profile(100, 2000, <<Hold(2000, 3 * Scale)>>)
\* first stage of duration 0, then a ramp 2.0 -> 6.0 bar and a hold
RampProfile ==
    Profile(2, 6, <<Hold(0, 2 * Scale), Linear(4, 2 * Scale, 6 * Scale), Hold(2, 6 * Scale)>>)
\* total duration not a multiple of the tick period; first stage of positive duration
ShortProfile == Profile(2, 5, <<Hold(4, 3 * Scale)>>)
\* target 0 bar throughout
ZeroProfile == Profile(2, 4, <<Hold(0, 0), Hold(4, 0)>>)
\* malformed: no stages
EmptyProfile == Profile(2, 4, <<>>)

\* tick period 2 ms, 4 ms, stages Hold(-2 ms, 3.0), Hold(4 ms, 6.0): a file
\* whose first stage has a negative duration
NegativeProfile == Profile(2, 4, <<Hold(0 - 2, 3 * Scale), Hold(4, 6 * Scale)>>)

\* PID(*pid_parameters): positional p, i, d, set_point, wind-up limits, dt
PidParams(p, i, d, sp, pos, neg, dt_inv) ==
    [p_const |-> p, i_const |-> i, d_const |-> d, set_point |-> sp,
     positive_wind_up |-> pos, negative_wind_up |-> neg, dt_inv |-> dt_inv]

\* three constants only: set_point None, wind-up +-10, dt 0.01 (the defaults)
PidDefaults == PidParams(1, 0, 0, None, 10 * Scale, (0 - 10) * Scale, 100)
\* all seven given, with a set point of 3.0 bar
PidTuned == PidParams(50, 2, 1, Some(3 * Scale), 5 * Scale, (0 - 5) * Scale, 10)

Reading(p, t) == [pressure |-> p, temperature |-> t]
SteadySensors == <<Reading(3 * Scale, Some(93 * Scale))>>
FaultySensors == <<Reading(0, Some(93 * Scale)), Reading(3 * Scale, None)>>

\* Durations the environment takes: the work of one tick (sensor reads,
\* arithmetic) and one round of the wait loop.  Jittery: half a tick period,
\* a whole one, or one and a half; Punctual: always half a tick period.
Jittery(prof) ==
    [work |-> {prof.time_step_ms \div 2, prof.time_step_ms,
               prof.time_step_ms + prof.time_step_ms \div 2},
     poll |-> {prof.time_step_ms \div 2, prof.time_step_ms}]
Punctual(prof) ==
    [work |-> {prof.time_step_ms \div 2}, poll |-> {prof.time_step_ms \div 2}]

Scenario(prof, pid, sensors, timing) ==
    [profile |-> prof, pid_parameters |-> pid, sensors |-> sensors, timing |-> timing,
     start_clock |-> 0]

Scenarios ==
    { Scenario(prof, pid, sens, Jittery(prof)) :
        prof \in {RampProfile, ShortProfile, ZeroProfile, EmptyProfile},
        pid \in {PidDefaults, PidTuned},
        sens \in {SteadySensors, FaultySensors} }
    \cup { Scenario(HoldProfile, pid, SteadySensors, Punctual(HoldProfile)) :
             pid \in {PidDefaults, PidTuned} }
    \cup { Scenario(NegativeProfile, PidTuned, SteadySensors, Punctual(NegativeProfile)) }

WorkTimes == scen.timing.work
PollTimes == scen.timing.poll

\* Arguments of the motor calls a test harness makes directly.
\* 0, 0.001, 400, 999.999, 1000, 1000.5, -999.999 and -1500 steps/s
HarnessSpeeds == {0, 1, 400 * Scale, 1000 * Scale - 1, 1000 * Scale,
                  1000 * Scale + Scale \div 2, 1 - 1000 * Scale, (0 - 1500) * Scale}
HarnessDirections == {None, Some(1)}

----------------------------------------------------------------------------
(* Initial state: Motor.__init__, PID.__init__, BrewController.__init__ *)

Init ==
    /\ scen \in Scenarios
    /\ now = scen.start_clock
    /\ en_pin = 1
    /\ dir_pin = 0
    /\ sm_active = 0
    /\ sm_freq = INIT_PIO_FREQ
    /\ mpc = "none"
    /\ m_op = "none"
    /\ m_caller = "none"
    /\ m_speed = 0
    /\ m_direction = None
    /\ pio_frequency = 0
    /\ entry_state = <<1, 0>>
    /\ integral_sum = 0
    /\ previous_error = 0
    /\ shot_log = <<>>
    /\ pc = "idle"
    /\ start_time = 0
    /\ current_loop_time_ms = 0
    /\ next_tick = 0
    /\ tick_start = 0
    /\ target_pressure = None
    /\ current_pressure = 0
    /\ current_temp = None
    /\ pid_output = 0
    /\ reads = 0
    /\ brews = 0
    /\ log_base = 0
    /\ exc = "none"
    /\ cancel_requested = FALSE
    /\ limit_switch = 1
    /\ polls = 0

----------------------------------------------------------------------------
(* hardware/motor.py: Motor.stop and Motor.set_speed *)

\* No Motor method is running.
MotorIdle == mpc \in {"none", "returned", "raised"}

\* A stop that halts the pulses and leaves the driver enabled.
StopPulsesOnly ==
    /\ sm_active' = 0
    /\ en_pin' = en_pin

\* The body of Motor.stop.
Stop ==
    /\ sm_active' = 0
    /\ en_pin' = 1

\* Enter set_speed(speed, direction).
EnterSetSpeed(caller, speed, direction) ==
    /\ mpc' = "ss_direction"
    /\ m_op' = "set_speed"
    /\ m_caller' = caller
    /\ m_speed' = speed
    /\ m_direction' = direction
    /\ pio_frequency' = 0
    /\ entry_state' = <<en_pin, sm_active>>

\* A whole call of stop().
CallStop(caller) ==
    /\ Stop
    /\ mpc' = "returned"
    /\ m_op' = "stop"
    /\ m_caller' = caller
    /\ m_speed' = 0
    /\ m_direction' = None
    /\ pio_frequency' = 0
    /\ entry_state' = <<en_pin, sm_active>>

\* Mutant of SetSpeedDirection: the driver is stopped before every retune.
SetSpeedDirectionStopFirst ==
    /\ mpc = "ss_direction"
    /\ dir_pin' = Direction(m_speed, m_direction)
    /\ Stop
    /\ mpc' = IF m_speed = 0 THEN "ss_zero" ELSE "ss_init"
    /\ UNCHANGED <<scen, now, sm_freq, m_op, m_caller, m_speed, m_direction,
                   pio_frequency, entry_state, pid_vars, shot_log, cycle_vars,
                   loop_vars, cancel_requested, home_vars>>

\* 1. Set Direction; speed 0 goes on to stop().
SetSpeedDirection ==
    /\ mpc = "ss_direction"
    /\ dir_pin' = Direction(m_speed, m_direction)
    /\ mpc' = IF m_speed = 0 THEN "ss_zero" ELSE "ss_init"
    /\ UNCHANGED <<scen, now, en_pin, sm_active, sm_freq, m_op, m_caller, m_speed,
                   m_direction, pio_frequency, entry_state, pid_vars, shot_log,
                   cycle_vars, loop_vars, cancel_requested, home_vars>>

\* Mutant of SetSpeedZero: speed 0 returns without calling stop().
SetSpeedZeroNoStop ==
    /\ mpc = "ss_zero"
    /\ mpc' = "returned"
    /\ UNCHANGED <<scen, now, motor_vars, m_op, m_caller, m_speed, m_direction,
                   pio_frequency, entry_state, pid_vars, shot_log, cycle_vars,
                   loop_vars, cancel_requested, home_vars>>

\* 2. speed == 0: self.stop(); return
SetSpeedZero ==
    /\ mpc = "ss_zero"
    /\ Stop
    /\ mpc' = "returned"
    /\ UNCHANGED <<scen, now, dir_pin, sm_freq, m_op, m_caller, m_speed, m_direction,
                   pio_frequency, entry_state, pid_vars, shot_log, cycle_vars,
                   loop_vars, cancel_requested, home_vars>>

\* 3. Compute and clamp pio_frequency, then sm.init with it.  sm.init either
\* programs the frequency or raises; whether it halts a running state
\* machine is not decided by this source, so both outcomes are allowed.
SetSpeedInit ==
    /\ mpc = "ss_init"
    /\ pio_frequency' = PioFrequency(m_speed)
    /\ \E ok \in BOOLEAN, halted \in BOOLEAN :
          /\ sm_freq' = IF ok THEN pio_frequency' ELSE sm_freq
          /\ sm_active' = IF halted THEN 0 ELSE sm_active
          /\ mpc' = IF ok THEN "ss_enable" ELSE "ss_except"
    /\ UNCHANGED <<scen, now, en_pin, dir_pin, m_op, m_caller, m_speed, m_direction,
                   entry_state, pid_vars, shot_log, cycle_vars, loop_vars,
                   cancel_requested, home_vars>>

\* Mutant of SetSpeedExcept: the failure is re-raised without stop().
SetSpeedExceptNoStop ==
    /\ mpc = "ss_except"
    /\ mpc' = "raised"
    /\ UNCHANGED <<scen, now, motor_vars, m_op, m_caller, m_speed, m_direction,
                   pio_frequency, entry_state, pid_vars, shot_log, cycle_vars,
                   loop_vars, cancel_requested, home_vars>>

\* except: self.stop(); raise
SetSpeedExcept ==
    /\ mpc = "ss_except"
    /\ Stop
    /\ mpc' = "raised"
    /\ UNCHANGED <<scen, now, dir_pin, sm_freq, m_op, m_caller, m_speed, m_direction,
                   pio_frequency, entry_state, pid_vars, shot_log, cycle_vars,
                   loop_vars, cancel_requested, home_vars>>

\* A set_speed that starts the pulses without enabling the driver.
SetSpeedEnableSkipped ==
    /\ mpc = "ss_enable"
    /\ mpc' = "ss_activate"
    /\ UNCHANGED <<scen, now, motor_vars, m_op, m_caller, m_speed, m_direction,
                   pio_frequency, entry_state, pid_vars, shot_log, cycle_vars,
                   loop_vars, cancel_requested, home_vars>>

\* 4. self.en_pin.value(0)
SetSpeedEnable ==
    /\ mpc = "ss_enable"
    /\ en_pin' = 0
    /\ mpc' = "ss_activate"
    /\ UNCHANGED <<scen, now, dir_pin, sm_active, sm_freq, m_op, m_caller, m_speed,
                   m_direction, pio_frequency, entry_state, pid_vars, shot_log,
                   cycle_vars, loop_vars, cancel_requested, home_vars>>

\* self.sm.active(1); return
SetSpeedActivate ==
    /\ mpc = "ss_activate"
    /\ sm_active' = 1
    /\ mpc' = "returned"
    /\ UNCHANGED <<scen, now, en_pin, dir_pin, sm_freq, m_op, m_caller, m_speed,
                   m_direction, pio_frequency, entry_state, pid_vars, shot_log,
                   cycle_vars, loop_vars, cancel_requested, home_vars>>

----------------------------------------------------------------------------
(* Direct calls of the motor by a harness, while no brew is running *)

HarnessSetSpeed ==
    /\ pc = "idle"
    /\ MotorIdle
    /\ \E s \in HarnessSpeeds, d \in HarnessDirections : EnterSetSpeed("harness", s, d)
    /\ UNCHANGED <<scen, now, motor_vars, pid_vars, shot_log, cycle_vars, loop_vars,
                   cancel_requested, home_vars>>

HarnessStop ==
    /\ pc = "idle"
    /\ MotorIdle
    /\ CallStop("harness")
    /\ UNCHANGED <<scen, now, dir_pin, sm_freq, pid_vars, shot_log, cycle_vars,
                   loop_vars, cancel_requested, home_vars>>

----------------------------------------------------------------------------
(* utils/control.py: BrewController *)

\* The readings the stub sensors give on the next read.
NextReading == scen.sensors[(reads % Len(scen.sensors)) + 1]

\* Mutant of DoBrewCycle: a missing temperature aborts the tick.
DoBrewCycleNeedsTemp(time, pressure, temperature) ==
    LET t == GetTargetAtTime(scen.profile.profile_stages, time)
        u == PidUpdate(scen.pid_parameters, integral_sum, previous_error, pressure, t.value)
    IN  IF t.raised THEN [raised |-> "profile"]
        ELSE IF u.raised \/ temperature = None THEN [raised |-> "pid", target |-> t.value, current_temp |-> temperature]
        ELSE [raised |-> "none",
              target |-> t.value,
              current_temp |-> temperature,
              pid |-> u.value,
              motor_speed |-> ConvertPidToSpeed(u.value.output)]

\* do_brew_cycle up to the set_speed call, on the current PID state: where it
\* raised ("none" if it did not), the locals target_pressure and current_temp,
\* the new PID state and output, and the speed handed to set_speed.
DoBrewCycle(time, pressure, temperature) ==
    LET t == GetTargetAtTime(scen.profile.profile_stages, time)
        u == PidUpdate(scen.pid_parameters, integral_sum, previous_error, pressure, t.value)
    IN  IF t.raised THEN [raised |-> "profile"]
        ELSE IF u.raised THEN [raised |-> "pid", target |-> t.value, current_temp |-> temperature]
        ELSE [raised |-> "none",
              target |-> t.value,
              current_temp |-> temperature,
              pid |-> u.value,
              motor_speed |-> ConvertPidToSpeed(u.value.output)]

\* An execute_brew that starts from an empty log and a PID at rest.
ExecuteBrewFresh ==
    /\ pc \in {"idle", "done", "raised"}
    /\ MotorIdle
    /\ brews < MaxBrews
    /\ brews' = brews + 1
    /\ start_time' = now
    /\ log_base' = 0
    /\ shot_log' = <<>>
    /\ integral_sum' = 0
    /\ previous_error' = 0
    /\ exc' = "none"
    /\ cancel_requested' = FALSE
    /\ current_loop_time_ms' = 0
    /\ pc' = IF scen.profile.duration > 0 THEN "tick" ELSE "done"
    /\ mpc' = "none"
    /\ m_op' = "none"
    /\ m_caller' = "none"
    /\ m_speed' = 0
    /\ m_direction' = None
    /\ pio_frequency' = 0
    /\ entry_state' = <<en_pin, sm_active>>
    /\ UNCHANGED <<scen, now, motor_vars, next_tick, tick_start,
                   cycle_vars, home_vars>>

\* execute_brew is called: time_step_ms, duration and start_time are read and
\* the for loop over range(0, duration_ms, time_step_ms) is entered.
ExecuteBrew ==
    /\ pc \in {"idle", "done", "raised"}
    /\ MotorIdle
    /\ brews < MaxBrews
    /\ brews' = brews + 1
    /\ start_time' = now
    /\ log_base' = Len(shot_log)
    /\ exc' = "none"
    /\ cancel_requested' = FALSE
    /\ current_loop_time_ms' = 0
    /\ pc' = IF scen.profile.duration > 0 THEN "tick" ELSE "done"
    /\ mpc' = "none"
    /\ m_op' = "none"
    /\ m_caller' = "none"
    /\ m_speed' = 0
    /\ m_direction' = None
    /\ pio_frequency' = 0
    /\ entry_state' = <<en_pin, sm_active>>
    /\ UNCHANGED <<scen, now, motor_vars, pid_vars, shot_log, next_tick, tick_start,
                   cycle_vars, home_vars>>

\* Top of one loop iteration: next_tick is set and do_brew_cycle runs up to
\* its call of set_speed, or raises before it.  The work takes some time.
BrewCycle ==
    /\ pc = "tick"
    /\ tick_start' = now
    /\ next_tick' = start_time + current_loop_time_ms + scen.profile.time_step_ms
    /\ \E w \in WorkTimes : now' = (now + w) % TicksPeriod
    /\ LET r == DoBrewCycle(current_loop_time_ms, NextReading.pressure,
                            NextReading.temperature)
       IN  IF r.raised = "profile"
           THEN /\ pc' = "raised"
                /\ exc' = "profile"
                /\ UNCHANGED <<pid_vars, cycle_vars, call_vars>>
           ELSE /\ target_pressure' = r.target
                /\ current_pressure' = NextReading.pressure
                /\ current_temp' = r.current_temp
                /\ reads' = (reads + 1) % Len(scen.sensors)
                /\ IF r.raised = "pid"
                   THEN /\ pc' = "raised"
                        /\ exc' = "pid"
                        /\ UNCHANGED <<pid_vars, call_vars, pid_output>>
                   ELSE /\ pid_output' = r.pid.output
                        /\ integral_sum' = r.pid.integral_sum
                        /\ previous_error' = r.pid.previous_error
                        /\ EnterSetSpeed("brew", r.motor_speed, None)
                        /\ pc' = "cycle"
                        /\ exc' = exc
    /\ UNCHANGED <<scen, motor_vars, shot_log, start_time, current_loop_time_ms, brews,
                   log_base, cancel_requested, home_vars>>

\* set_speed returned: the tick's entry is appended to the shot log.
BrewCycleLog ==
    /\ pc = "cycle"
    /\ mpc = "returned"
    /\ shot_log' = Append(shot_log, <<current_loop_time_ms, target_pressure,
                                      current_pressure, current_temp>>)
    /\ pc' = "wait"
    /\ UNCHANGED <<scen, now, motor_vars, call_vars, pid_vars, cycle_vars, start_time,
                   current_loop_time_ms, next_tick, tick_start,
                   brews, log_base, exc,
                   cancel_requested, home_vars>>

\* Mutant of BrewCycleRaise: the failure is swallowed and the loop goes on.
BrewCycleRaiseSwallowed ==
    /\ pc = "cycle"
    /\ mpc = "raised"
    /\ pc' = "wait"
    /\ UNCHANGED <<scen, now, motor_vars, call_vars, pid_vars, shot_log, cycle_vars,
                   start_time, current_loop_time_ms, next_tick, tick_start,
                   brews, log_base, exc,
                   cancel_requested, home_vars>>

\* set_speed raised: nothing catches it, it leaves do_brew_cycle and execute_brew.
BrewCycleRaise ==
    /\ pc = "cycle"
    /\ mpc = "raised"
    /\ pc' = "raised"
    /\ exc' = "set_speed"
    /\ UNCHANGED <<scen, now, motor_vars, call_vars, pid_vars, shot_log, cycle_vars,
                   start_time, current_loop_time_ms, next_tick, tick_start,
                   brews, log_base,
                   cancel_requested, home_vars>>

\* while utime.ticks_ms() < next_tick: self.motor.stop()
WaitPoll ==
    /\ pc = "wait"
    /\ now < next_tick
    /\ CallStop("brew")
    /\ \E d \in PollTimes : now' = (now + d) % TicksPeriod
    /\ UNCHANGED <<scen, dir_pin, sm_freq, pid_vars, shot_log, cycle_vars, loop_vars,
                   cancel_requested, home_vars>>

\* A loop that also runs the tick at elapsed time == duration.
NextTickInclusive ==
    /\ pc = "wait"
    /\ ~(now < next_tick)
    /\ IF current_loop_time_ms + scen.profile.time_step_ms <= scen.profile.duration
       THEN /\ current_loop_time_ms' = current_loop_time_ms + scen.profile.time_step_ms
            /\ pc' = "tick"
       ELSE /\ current_loop_time_ms' = current_loop_time_ms
            /\ pc' = "done"
    /\ UNCHANGED <<scen, now, motor_vars, call_vars, pid_vars, shot_log, cycle_vars,
                   start_time, next_tick, tick_start,
                   brews, log_base, exc, cancel_requested, home_vars>>

\* The wait loop's condition is false: next value of the range, or the end.
NextTick ==
    /\ pc = "wait"
    /\ ~(now < next_tick)
    /\ IF current_loop_time_ms + scen.profile.time_step_ms < scen.profile.duration
       THEN /\ current_loop_time_ms' = current_loop_time_ms + scen.profile.time_step_ms
            /\ pc' = "tick"
       ELSE /\ current_loop_time_ms' = current_loop_time_ms
            /\ pc' = "done"
    /\ UNCHANGED <<scen, now, motor_vars, call_vars, pid_vars, shot_log, cycle_vars,
                   start_time, next_tick, tick_start,
                   brews, log_base, exc, cancel_requested, home_vars>>

\* The operator asks to abort the running brew.  Nothing in execute_brew
\* reads the request.
RequestCancel ==
    /\ pc \in {"tick", "cycle", "wait"}
    /\ ~cancel_requested
    /\ cancel_requested' = TRUE
    /\ UNCHANGED <<scen, now, motor_vars, call_vars, pid_vars, shot_log, cycle_vars,
                   loop_vars, home_vars>>

----------------------------------------------------------------------------
Next ==
    \/ HarnessSetSpeed
    \/ HarnessStop
    \/ SetSpeedDirection
    \/ SetSpeedZero
    \/ SetSpeedInit
    \/ SetSpeedExcept
    \/ SetSpeedEnable
    \/ SetSpeedActivate
    \/ ExecuteBrew
    \/ BrewCycle
    \/ BrewCycleLog
    \/ BrewCycleRaise
    \/ WaitPoll
    \/ NextTick
    \/ RequestCancel

Spec == Init /\ [][Next]_vars

----------------------------------------------------------------------------
(* Observations used by the properties *)

\* The actuator states of the design: Disabled and Active.
Disabled == en_pin = 1 /\ sm_active = 0
Active == en_pin = 0 /\ sm_active = 1
\* Frequency of the pulses that leave the state machine.
PulseFrequency == IF sm_active = 1 THEN sm_freq ELSE 0
\* execute_brew is between its entry and its exit.
BrewRunning == pc \in {"tick", "cycle", "wait"}
\* Number of ticks the running execute_brew has completed before the current one.
TicksBefore == current_loop_time_ms \div scen.profile.time_step_ms
\* The reading the stub sensors gave on the last read.
LastReading == scen.sensors[((reads + Len(scen.sensors) - 1) % Len(scen.sensors)) + 1]

----------------------------------------------------------------------------
(* Properties *)

\* C1: whenever an execute_brew that has issued a set_speed has stopped running,
\* by completing all its ticks or by an error raised in do_brew_cycle, stop()
\* has been called after the last set_speed: the actuator is Disabled.
C1_DisabledAtLoopExit ==
    (brews > 0 /\ pc \in {"done", "raised"} /\ Len(shot_log) > log_base) => Disabled

\* C2: while execute_brew waits for the next tick, an actuator that the tick
\* left Active stays Active: the wait performs no actuator operation.
C2_ActiveThroughWait ==
    [][(pc = "wait" /\ Active) => Active']_vars

\* C3: when set_speed has raised its programming failure, from whatever state
\* it was entered in, the actuator is Disabled.
C3_FailedSetSpeedDisabled ==
    (m_op = "set_speed" /\ mpc = "raised") => (Disabled /\ PulseFrequency = 0)

\* C3 witness: set_speed entered with the actuator Active has raised.
C3_Witness ==
    m_op = "set_speed" /\ mpc = "raised" /\ entry_state = <<0, 1>>

\* C4: with the profile 100 ms / 2000 ms / Hold(2000 ms, 3.0 bar) and a pressure
\* sensor that always reads 3.0, the brew does not fail, every logged target
\* is 3.0, every commanded speed is 0 and the actuator stays Disabled.
C4_HoldAtSetpoint ==
    (scen.profile = HoldProfile /\ scen.sensors = SteadySensors /\ brews > 0)
    => /\ exc = "none"
       /\ \A i \in 1..Len(shot_log) : shot_log[i][2] = Some(3 * Scale)
       /\ (m_caller = "brew" /\ m_op = "set_speed") => m_speed = 0
       /\ Disabled

\* C5: when set_speed raises during a tick, the next step of the brew is to
\* leave execute_brew with that failure, without touching the log or the
\* actuator; after the exit the actuator is Disabled, the log holds the
\* entries of exactly the ticks completed before, and no further tick runs
\* until execute_brew is called again.
C5_StateAtFailure ==
    (pc = "raised" /\ exc = "set_speed")
    => /\ Disabled
       /\ Len(shot_log) = log_base + TicksBefore
       /\ \A k \in 1..TicksBefore :
             shot_log[log_base + k][1] = (k - 1) * scen.profile.time_step_ms
       /\ m_op = "set_speed" /\ mpc = "raised"

\* C5 (whole claim): the state at the failure, and the two steps around it.
C5_FailureEndsBrew ==
    /\ [] C5_StateAtFailure
    /\ [][(pc = "cycle" /\ mpc = "raised")
            => (pc' \in {"cycle", "raised"} /\ shot_log' = shot_log
                /\ motor_vars' = motor_vars)]_vars
    /\ [][pc = "raised" => (pc' = "raised" \/ brews' = brews + 1)]_vars

\* C5 witness: the failure came on a later tick than the first, so the log
\* holds entries of the failed brew.
C5_Witness ==
    pc = "raised" /\ exc = "set_speed" /\ TicksBefore = 2 /\ Len(shot_log) = 2

\* C6: once cancellation has been requested, the brew loop starts no further
\* tick: at a tick boundary it does not go on to do_brew_cycle.
C6_CancelStopsTicks ==
    [][(cancel_requested /\ pc = "tick") => pc' # "cycle"]_vars

\* C7: a tick on which the temperature sensor returns None does what the same
\* tick does with a temperature: same target, same PID update, same speed
\* handed to set_speed; its log entry holds the elapsed time, the target, the
\* pressure read and None, and the loop goes on to the wait.
C7_TickWithoutTemperature ==
    /\ [][(pc = "tick" /\ pc' # "tick" /\ NextReading.temperature = None)
            => LET r == DoBrewCycle(current_loop_time_ms, NextReading.pressure,
                                    Some(93 * Scale))
               IN  /\ (r.raised # "none") = (pc' = "raised")
                   /\ r.raised = "none" =>
                        /\ pc' = "cycle"
                        /\ mpc' = "ss_direction"
                        /\ m_speed' = r.motor_speed
                        /\ target_pressure' = r.target
                        /\ current_pressure' = NextReading.pressure
                        /\ integral_sum' = r.pid.integral_sum
                        /\ previous_error' = r.pid.previous_error
                        /\ current_temp' = None]_vars
    /\ [][(pc = "cycle" /\ pc' # "cycle" /\ mpc = "returned" /\ current_temp = None)
            => /\ pc' = "wait"
               /\ shot_log' = Append(shot_log,
                     <<current_loop_time_ms,
                       GetTargetAtTime(scen.profile.profile_stages,
                                       current_loop_time_ms).value,
                       LastReading.pressure,
                       None>>)]_vars

\* C7 witness: an entry without temperature is in the log, with a nonzero
\* target, followed by the entry of the next tick.
C7_Witness ==
    \E i \in 1..Len(shot_log) :
        /\ shot_log[i][4] = None
        /\ shot_log[i][2] # None
        /\ i < Len(shot_log)
        /\ shot_log[i + 1][1] = shot_log[i][1] + scen.profile.time_step_ms

\* C8: after set_speed(0, direction), for every direction, and after stop(),
\* the driver enable is off and no pulses are emitted.
C8_ZeroSpeedIsStop ==
    (mpc = "returned" /\ (m_op = "stop" \/ (m_op = "set_speed" /\ m_speed = 0)))
    => (Disabled /\ PulseFrequency = 0)

\* C8 witness: set_speed(0, 1) has returned, entered with the actuator Active.
C8_Witness ==
    /\ mpc = "returned" /\ m_op = "set_speed" /\ m_speed = 0
    /\ m_direction = Some(1) /\ entry_state = <<0, 1>>

C10_RetuneInPlace ==
    (m_op = "set_speed" /\ m_speed # 0 /\ entry_state = <<0, 1>>
        /\ mpc \in {"ss_direction", "ss_init", "ss_enable", "ss_activate", "returned"})
    => /\ en_pin = 0
       /\ mpc = "returned" => (Active /\ sm_freq = PioFrequency(m_speed))

\* C10 witness: the actuator has been retuned from 2000 Hz to 3000 Hz.
C10_Witness ==
    /\ m_op = "set_speed" /\ mpc = "returned" /\ entry_state = <<0, 1>>
    /\ m_speed = (0 - 1500) * Scale /\ sm_freq = 3000


----------------------------------------------------------------------------
(* utils/pid.py driven directly: a caller that owns one PID object and *)
(* calls update on it with measurements and targets of its choice.     *)

\* Every field as the constructors leave it; the scenario is chosen apart.
Constructed ==
    /\ now = scen.start_clock
    /\ en_pin = 1
    /\ dir_pin = 0
    /\ sm_active = 0
    /\ sm_freq = INIT_PIO_FREQ
    /\ mpc = "none"
    /\ m_op = "none"
    /\ m_caller = "none"
    /\ m_speed = 0
    /\ m_direction = None
    /\ pio_frequency = 0
    /\ entry_state = <<1, 0>>
    /\ integral_sum = 0
    /\ previous_error = 0
    /\ shot_log = <<>>
    /\ pc = "idle"
    /\ start_time = 0
    /\ current_loop_time_ms = 0
    /\ next_tick = 0
    /\ tick_start = 0
    /\ target_pressure = None
    /\ current_pressure = 0
    /\ current_temp = None
    /\ pid_output = 0
    /\ reads = 0
    /\ brews = 0
    /\ log_base = 0
    /\ exc = "none"
    /\ cancel_requested = FALSE
    /\ limit_switch = 1
    /\ polls = 0

\* wind-up limits 0 .. +2 with a set point of 9.0 bar
PidOneSided == PidParams(1, 1, 1, Some(9 * Scale), 2 * Scale, 0, 10)
\* wind-up limits -1 .. 0 with a set point of 0.0 bar
PidCapped == PidParams(2, 1, 0, Some(0), 0, 0 - Scale, 10)

PidSettings == {PidDefaults, PidTuned, PidOneSided, PidCapped}

\* current_value and target arguments of update: 0, 1.5, 3, 9 bar; target
\* omitted, 0, 3, 9 bar
PidMeasurements == {0, Scale + Scale \div 2, 3 * Scale, 9 * Scale}
PidTargets == {None, Some(0), Some(3 * Scale), Some(9 * Scale)}

InitPid ==
    /\ scen \in { Scenario(ShortProfile, pid, SteadySensors, Punctual(ShortProfile)) :
                    pid \in PidSettings }
    /\ Constructed

\* One call update(current_value, target); what it was called with stays in
\* current_pressure and target_pressure, what it returned in pid_output, and
\* exc tells whether it raised.
PidCall ==
    \E current_value \in PidMeasurements, target \in PidTargets :
        LET r == PidUpdate(scen.pid_parameters, integral_sum, previous_error,
                           current_value, target)
        IN  /\ current_pressure' = current_value
            /\ target_pressure' = target
            /\ IF r.raised
               THEN /\ exc' = "pid"
                    /\ UNCHANGED <<pid_vars, pid_output>>
               ELSE /\ exc' = "none"
                    /\ integral_sum' = r.value.integral_sum
                    /\ previous_error' = r.value.previous_error
                    /\ pid_output' = r.value.output
            /\ UNCHANGED <<scen, now, motor_vars, call_vars, shot_log, current_temp, reads,
                           pc, start_time, current_loop_time_ms, next_tick, tick_start,
                           brews, log_base, cancel_requested, home_vars>>

NextPid == PidCall

SpecPid == InitPid /\ [][NextPid]_vars


\* C11: under update calls with negative_wind_up <= 0 <= positive_wind_up,
\* integral_sum is within [negative_wind_up, positive_wind_up] after every
\* call; a call whose error is positive never lowers integral_sum, adds the
\* whole error to it unless that would pass positive_wind_up, and then
\* leaves it at positive_wind_up exactly.
C11_IntegralClamped ==
    /\ [](/\ scen.pid_parameters.negative_wind_up <= integral_sum
          /\ integral_sum <= scen.pid_parameters.positive_wind_up)
    /\ [][(exc' = "none" /\ previous_error' > 0)
            => /\ integral_sum' >= integral_sum
               /\ integral_sum' <= scen.pid_parameters.positive_wind_up
               /\ integral_sum' < scen.pid_parameters.positive_wind_up
                    => integral_sum' = integral_sum + previous_error']_vars

\* Positive errors have driven the accumulator onto a positive limit.
C11_Witness ==
    /\ exc = "none"
    /\ previous_error > 0
    /\ scen.pid_parameters.positive_wind_up > 0
    /\ integral_sum = scen.pid_parameters.positive_wind_up
    /\ integral_sum < 2 * previous_error


\* C12: a PID at rest (integral_sum 0, previous_error 0, as constructed)
\* that is called with a target and a measurement equal to it stays at
\* rest and returns 0, for every target value, 0 included; so it does on
\* every call of a sequence of such calls.
C12_SteadyAtTarget ==
    [][(/\ integral_sum = 0
        /\ previous_error = 0
        /\ target_pressure' # None
        /\ current_pressure' = Val(target_pressure'))
          => /\ exc' = "none"
             /\ integral_sum' = 0
             /\ previous_error' = 0
             /\ pid_output' = 0]_vars

\* C13: update computes its error from the target the caller passed, for
\* every numeric target, 0 included: after a call with a target the call has
\* not raised and the error it stored is target - current_value.
C13_ErrorFromCallerTarget ==
    target_pressure # None
      => /\ exc = "none"
         /\ previous_error = Val(target_pressure) - current_pressure


----------------------------------------------------------------------------
(* utils/profile_handler.py driven directly: a loaded profile that is *)
(* asked for its target at elapsed times of the caller's choice.      *)

MaxStages == 3      \* longest stage list built from StageChoices
MaxTime == 13       \* elapsed times 0 .. MaxTime are asked (ms)

\* Stages a profile file is built from here: holds of 0, 2 and 4 ms, a ramp of
\* no duration, a rising and a falling ramp.  Durations are never negative.
StageChoices ==
    {Hold(0, 2 * Scale), Hold(2, 2 * Scale), Hold(4, 3 * Scale),
     Linear(0, 2 * Scale, 6 * Scale), Linear(4, 2 * Scale, 6 * Scale),
     Linear(2, 6 * Scale, 2 * Scale)}

\* the single stage Ramp(1000 ms, 0.0, 9.0)
SampleRamp == Linear(1000, 0, 9 * Scale)

\* profile_points of the loaded file: the empty list, every list of up to
\* MaxStages of the stages above, and the sample ramp alone.
StageLists ==
    UNION { [1..n -> StageChoices] : n \in 0..MaxStages } \cup {<<SampleRamp>>}

\* current_time_ms arguments of get_target_at_time
CallTimes == 0..MaxTime \cup {500, 1000, 1500}

InitProfile ==
    /\ scen \in { Scenario(Profile(2, 4, stages), PidDefaults, SteadySensors,
                           Punctual(ShortProfile)) : stages \in StageLists }
    /\ Constructed

\* One call get_target_at_time(t).  pc is "called" from the first call on; t
\* stays in current_loop_time_ms, what the call returned in target_pressure,
\* and exc tells whether it raised.
GetTargetCall ==
    \E t \in CallTimes :
        LET r == GetTargetAtTime(scen.profile.profile_stages, t)
        IN  /\ pc' = "called"
            /\ current_loop_time_ms' = t
            /\ IF r.raised
               THEN /\ exc' = "profile"
                    /\ UNCHANGED target_pressure
               ELSE /\ exc' = "none"
                    /\ target_pressure' = r.value
            /\ UNCHANGED <<scen, now, motor_vars, call_vars, pid_vars, shot_log,
                           current_pressure, current_temp, pid_output, reads,
                           start_time, next_tick, tick_start, brews, log_base,
                           cancel_requested, home_vars>>

NextProfile == GetTargetCall

SpecProfile == InitProfile /\ [][NextProfile]_vars


\* What a call of get_target_at_time is judged by: the stage list it worked
\* on, where stage i starts and ends on the profile's time axis, and the
\* value a stage ends on.
Stages == scen.profile.profile_stages

RECURSIVE StartOf(_, _)
StartOf(stages, i) == IF i = 1 THEN 0 ELSE StartOf(stages, i - 1) + stages[i - 1].duration

EndOf(stages, i) == StartOf(stages, i) + stages[i].duration

TotalDuration(stages) == StartOf(stages, Len(stages) + 1)

TerminalValue(stage) ==
    IF stage.interpolation = "hold" THEN stage.p_init ELSE stage.p_final

\* C14: for a non-empty stage list and an elapsed time greater than the sum
\* of all stage durations, get_target_at_time does not raise and returns the
\* last stage's terminal value (hold pressure, or end pressure of a ramp),
\* never None.
C14_PastEndTerminal ==
    (pc = "called" /\ Len(Stages) > 0 /\ current_loop_time_ms > TotalDuration(Stages))
      => /\ exc = "none"
         /\ target_pressure # None
         /\ target_pressure = Some(TerminalValue(Stages[Len(Stages)]))

\* Asked past the end of a list of several stages whose last one is a ramp
\* and whose first one ends elsewhere.
C14_Witness ==
    /\ pc = "called"
    /\ Len(Stages) > 1
    /\ current_loop_time_ms > TotalDuration(Stages)
    /\ current_loop_time_ms <= MaxTime
    /\ Stages[Len(Stages)].interpolation = "linear"
    /\ TerminalValue(Stages[1]) # TerminalValue(Stages[Len(Stages)])
    /\ target_pressure = Some(Stages[Len(Stages)].p_final)


\* The stages whose interval (start, end] holds the elapsed time t.
ContainingStages(stages, t) ==
    { i \in 1..Len(stages) : StartOf(stages, i) < t /\ t <= EndOf(stages, i) }

\* start + (end - start) * x / duration, x ms into a ramp of positive duration
RampValue(stage, x) ==
    stage.p_init + ((stage.p_final - stage.p_init) * x) \div stage.duration

\* C15: for an elapsed time t > 0 the value comes from the first stage whose
\* interval (timeAtStart, timeAtStart + duration] holds t, timeAtStart being
\* the sum of the earlier durations: its pressure for a hold, its ramp
\* value at t - timeAtStart for a ramp.  A t on the boundary between two
\* stages gets the earlier stage's hold value or ramp end value.
C15_FirstContainingStage ==
    (pc = "called" /\ current_loop_time_ms > 0)
      => \A i \in ContainingStages(Stages, current_loop_time_ms) :
            (\A j \in ContainingStages(Stages, current_loop_time_ms) : i <= j)
              => /\ exc = "none"
                 /\ Stages[i].interpolation = "hold"
                      => target_pressure = Some(Stages[i].p_init)
                 /\ Stages[i].interpolation = "linear"
                      => target_pressure =
                           Some(RampValue(Stages[i],
                                          current_loop_time_ms - StartOf(Stages, i)))
                 /\ current_loop_time_ms = EndOf(Stages, i)
                      => target_pressure = Some(TerminalValue(Stages[i]))

\* Asked on the boundary between two stages of positive duration, where the
\* later stage starts on another pressure than the earlier one ends on.
C15_Witness ==
    /\ pc = "called"
    /\ \E i \in 1..(Len(Stages) - 1) :
          /\ Stages[i].duration > 0
          /\ Stages[i + 1].duration > 0
          /\ current_loop_time_ms = EndOf(Stages, i)
          /\ Stages[i + 1].p_init # TerminalValue(Stages[i])
          /\ target_pressure = Some(TerminalValue(Stages[i]))


\* C16: at an elapsed time t inside a ramp stage of positive duration (the
\* stage starts before t and does not end before t) get_target_at_time
\* returns start + (end - start) * (t - timeAtStart) / duration; the profile
\* of the single stage Ramp(1000 ms, 0.0, 9.0) gives 4.5 at 500, 9.0 at 1000
\* and 9.0 at 1500.
C16_RampInterpolation ==
    pc = "called"
      => /\ \A i \in 1..Len(Stages) :
              (/\ Stages[i].interpolation = "linear"
               /\ Stages[i].duration > 0
               /\ StartOf(Stages, i) < current_loop_time_ms
               /\ current_loop_time_ms <= EndOf(Stages, i))
                 => target_pressure =
                      Some(Stages[i].p_init
                           + ((Stages[i].p_final - Stages[i].p_init)
                              * (current_loop_time_ms - StartOf(Stages, i)))
                             \div Stages[i].duration)
         /\ Stages = <<Linear(1000, 0, 9 * Scale)>>
              => /\ current_loop_time_ms = 500
                    => target_pressure = Some(4 * Scale + Scale \div 2)
                 /\ current_loop_time_ms = 1000 => target_pressure = Some(9 * Scale)
                 /\ current_loop_time_ms = 1500 => target_pressure = Some(9 * Scale)

\* Asked strictly inside a ramp that is not the first stage and starts late.
C16_Witness ==
    /\ pc = "called"
    /\ \E i \in 2..Len(Stages) :
          /\ Stages[i].interpolation = "linear"
          /\ StartOf(Stages, i) > 0
          /\ StartOf(Stages, i) < current_loop_time_ms
          /\ current_loop_time_ms < EndOf(Stages, i)
          /\ target_pressure # Some(Stages[i].p_init)
          /\ target_pressure # Some(Stages[i].p_final)


\* C17: at elapsed time 0 get_target_at_time returns the first stage's
\* defined value (hold pressure or ramp start pressure) for every non-empty
\* stage list, whatever the first stage's duration: the walk starts the first
\* stage at time 0.
C17_FirstValueAtZero ==
    (pc = "called" /\ current_loop_time_ms = 0 /\ Len(Stages) > 0)
      => /\ exc = "none"
         /\ target_pressure = Some(Stages[1].p_init)

\* The positions of the ramps of duration 0 in a stage list.
ZeroRamps(stages) ==
    { i \in 1..Len(stages) :
        stages[i].interpolation = "linear" /\ stages[i].duration = 0 }

\* The stage list without its stage i.
Without(stages, i) ==
    [ k \in 1..(Len(stages) - 1) |-> IF k < i THEN stages[k] ELSE stages[k + 1] ]

\* C18 as stated: with a ramp of duration 0 at any position the call does
\* not raise, and the times that fall to that ramp (time 0 when it is the
\* first stage, the times past the profile end when it is the last) yield
\* its start pressure.
C18_ZeroRampStartPressure ==
    pc = "called"
      => \A i \in ZeroRamps(Stages) :
            /\ exc = "none"
            /\ (i = 1 /\ current_loop_time_ms = 0)
                 => target_pressure = Some(Stages[i].p_init)
            /\ (i = Len(Stages) /\ current_loop_time_ms > TotalDuration(Stages))
                 => target_pressure = Some(Stages[i].p_init)

\* C18 (amended): with a ramp of duration 0 at any position the call does
\* not raise.  The ramp's interval is empty: at a time in 1 .. profile end
\* the call returns what it returns for the list without that ramp.  At
\* time 0 a first-stage ramp of duration 0 yields its start pressure; past
\* the profile end a last-stage ramp of duration 0 yields its end pressure,
\* as every last ramp does.
C18_ZeroRampEmptyInterval ==
    pc = "called"
      => \A i \in ZeroRamps(Stages) :
            /\ exc = "none"
            /\ (i = 1 /\ current_loop_time_ms = 0)
                 => target_pressure = Some(Stages[i].p_init)
            /\ (i = Len(Stages) /\ current_loop_time_ms > TotalDuration(Stages))
                 => target_pressure = Some(Stages[i].p_final)
            /\ (0 < current_loop_time_ms /\ current_loop_time_ms <= TotalDuration(Stages))
                 => Ok(target_pressure)
                      = GetTargetAtTime(Without(Stages, i), current_loop_time_ms)

\* Asked past the end of a profile of several stages that ends on a ramp of
\* duration 0 from one pressure to another.
C18_Witness ==
    /\ pc = "called"
    /\ Len(Stages) > 1
    /\ Len(Stages) \in ZeroRamps(Stages)
    /\ TotalDuration(Stages) > 0
    /\ current_loop_time_ms > TotalDuration(Stages)
    /\ Stages[Len(Stages)].p_final # Stages[Len(Stages)].p_init
    /\ target_pressure = Some(Stages[Len(Stages)].p_final)


----------------------------------------------------------------------------
(* The brew loop's ticks, under Spec *)

\* ceil(duration / time_step_ms)
TickCount ==
    (scen.profile.duration + scen.profile.time_step_ms - 1) \div scen.profile.time_step_ms

\* Log entries the running or last brew has appended.
EntriesOfBrew == Len(shot_log) - log_base

\* C19: an execute_brew run that returns without an error has performed
\* exactly ceil(duration / time_step_ms) ticks; tick k = 0, 1, ... uses the
\* elapsed time k * time_step_ms, which grows by time_step_ms from one tick
\* to the next; each tick appends exactly one entry <<elapsed, target,
\* measured pressure, temperature>> at the end of the shot log, and no step
\* changes or removes an earlier entry.
C19_TicksAndLog ==
    /\ [](pc = "done"
            => /\ EntriesOfBrew = TickCount
               /\ \A k \in 0..(TickCount - 1) :
                     shot_log[log_base + k + 1][1] = k * scen.profile.time_step_ms)
    /\ [](pc \in {"tick", "cycle"}
            => current_loop_time_ms = EntriesOfBrew * scen.profile.time_step_ms)
    /\ [](pc = "wait"
            => current_loop_time_ms = (EntriesOfBrew - 1) * scen.profile.time_step_ms)
    /\ [][(pc = "wait" /\ pc' = "tick")
            => current_loop_time_ms'
                 = current_loop_time_ms + scen.profile.time_step_ms]_vars
    /\ [][shot_log' # shot_log
            => /\ pc = "cycle" /\ pc' = "wait"
               /\ shot_log' = Append(shot_log, <<current_loop_time_ms, target_pressure,
                                                 current_pressure, current_temp>>)]_vars

\* A second brew has returned after three ticks of a profile whose duration
\* is no multiple of the tick period; its entries follow the first brew's.
C19_Witness ==
    /\ pc = "done"
    /\ scen.profile.duration % scen.profile.time_step_ms # 0
    /\ log_base = 3
    /\ EntriesOfBrew = 3
    /\ shot_log[log_base + 3][1] = 2 * scen.profile.time_step_ms


\* C20: the wait of a tick lasts until that tick's own start plus
\* time_step_ms: the wait loop goes on only before that instant and is left
\* only from it on, so every tick, also one that follows an overrun, occupies
\* at least a full tick period from its own start; and the tick after an
\* overrun is the next one of the range, none is skipped.
C20_WaitFromTickStart ==
    /\ [][(pc = "wait" /\ pc' = "wait" /\ now' # now)
            => now < tick_start + scen.profile.time_step_ms]_vars
    /\ [][(pc = "wait" /\ pc' # "wait")
            => now >= tick_start + scen.profile.time_step_ms]_vars
    /\ [][(pc = "wait" /\ pc' = "tick")
            => current_loop_time_ms'
                 = current_loop_time_ms + scen.profile.time_step_ms]_vars


----------------------------------------------------------------------------
(* Malformed profiles, under Spec *)

\* The loaded stage list is empty or has a stage of negative duration.
Malformed ==
    \/ Len(Stages) = 0
    \/ \E i \in 1..Len(Stages) : Stages[i].duration < 0

\* C21: with a malformed profile (empty stage list, or a stage of negative
\* duration) execute_brew runs do_brew_cycle not once: it performs no tick,
\* nothing is raised out of a tick, no set_speed is issued by the brew and
\* the shot log stays empty.
C21_MalformedRejected ==
    Malformed
      => /\ pc \notin {"cycle", "wait"}
         /\ exc = "none"
         /\ m_caller # "brew"
         /\ shot_log = <<>>


----------------------------------------------------------------------------
(* hardware/motor.py driven directly: set_speed, stop and home called one *)
(* after the other on one Motor, and a limit switch in its environment.  *)

\* homing_speed = -500 steps/s
HOMING_SPEED == (0 - 500) * Scale
\* Most sleeps one home call makes before the switch has to be pressed.
MaxPolls == 3

\* direction arguments of set_speed: omitted, 0, 1
MotorDirections == {None, Some(0), Some(1)}

\* home has called set_speed and has not yet left (by its stop or by the
\* exception of set_speed).
HomeRunning == m_caller = "home" /\ m_op = "set_speed" /\ mpc # "raised"
\* home is in its loop `while limit_switch.value() == 1`.
HomeWaiting == HomeRunning /\ mpc = "returned"

InitMotor ==
    /\ scen = Scenario(ShortProfile, PidDefaults, SteadySensors, Punctual(ShortProfile))
    /\ Constructed

MotorCallSetSpeed ==
    /\ MotorIdle
    /\ ~HomeRunning
    /\ \E s \in HarnessSpeeds, d \in MotorDirections : EnterSetSpeed("harness", s, d)
    /\ UNCHANGED <<scen, now, motor_vars, pid_vars, shot_log, cycle_vars, loop_vars,
                   cancel_requested, home_vars>>

MotorCallStop ==
    /\ MotorIdle
    /\ ~HomeRunning
    /\ CallStop("harness")
    /\ UNCHANGED <<scen, now, dir_pin, sm_freq, pid_vars, shot_log, cycle_vars,
                   loop_vars, cancel_requested, home_vars>>

\* home(home_switch_pin) up to its call self.set_speed(homing_speed)
HomeEnter ==
    /\ MotorIdle
    /\ ~HomeRunning
    /\ EnterSetSpeed("home", HOMING_SPEED, None)
    /\ polls' = 0
    /\ UNCHANGED <<scen, now, motor_vars, pid_vars, shot_log, cycle_vars, loop_vars,
                   cancel_requested, limit_switch>>

\* limit_switch.value() == 1: utime.sleep_ms(5), and round the loop again.
\* The sleeps are counted in polls; the brew clock is not read by home.
HomePollOpen ==
    /\ HomeWaiting
    /\ limit_switch = 1
    /\ polls < MaxPolls
    /\ polls' = polls + 1
    /\ UNCHANGED <<scen, now, motor_vars, call_vars, pid_vars, shot_log, cycle_vars,
                   loop_vars, cancel_requested, limit_switch>>

\* A home that leaves its loop without stopping the motor.
HomePollPressedNoStop ==
    /\ HomeWaiting
    /\ limit_switch = 0
    /\ mpc' = "returned"
    /\ m_op' = "stop"
    /\ UNCHANGED <<scen, now, motor_vars, m_caller, m_speed, m_direction, pio_frequency,
                   entry_state, pid_vars, shot_log, cycle_vars, loop_vars,
                   cancel_requested, home_vars>>

\* limit_switch.value() == 0: the loop ends; self.stop(); home returns
HomePollPressed ==
    /\ HomeWaiting
    /\ limit_switch = 0
    /\ CallStop("home")
    /\ UNCHANGED <<scen, now, dir_pin, sm_freq, pid_vars, shot_log, cycle_vars,
                   loop_vars, cancel_requested, home_vars>>

\* The carriage reaches the limit switch, or something presses it.
SwitchTrips ==
    /\ limit_switch = 1
    /\ limit_switch' = 0
    /\ UNCHANGED <<scen, now, motor_vars, call_vars, pid_vars, shot_log, cycle_vars,
                   loop_vars, cancel_requested, polls>>

\* The switch opens again; not while home holds the carriage against it.
SwitchReleases ==
    /\ limit_switch = 0
    /\ ~HomeRunning
    /\ limit_switch' = 1
    /\ UNCHANGED <<scen, now, motor_vars, call_vars, pid_vars, shot_log, cycle_vars,
                   loop_vars, cancel_requested, polls>>

\* The steps inside a running set_speed.
SetSpeedStep ==
    \/ SetSpeedDirection
    \/ SetSpeedZero
    \/ SetSpeedInit
    \/ SetSpeedExcept
    \/ SetSpeedEnable
    \/ SetSpeedActivate

NextMotor ==
    \/ MotorCallSetSpeed
    \/ MotorCallStop
    \/ HomeEnter
    \/ HomePollOpen
    \/ HomePollPressed
    \/ SwitchTrips
    \/ SwitchReleases
    \/ SetSpeedStep

\* A called method runs on, home polls on, and the switch is pressed in the
\* end if it is open.
SpecMotor ==
    /\ InitMotor
    /\ [][NextMotor]_vars
    /\ WF_vars(SetSpeedStep)
    /\ WF_vars(HomePollOpen)
    /\ WF_vars(HomePollPressed)
    /\ WF_vars(SwitchTrips)


\* C22: set_speed sets the direction output to the direction argument when
\* one is given, whatever the sign of speed; without one to forward (0) for
\* every speed >= 0 and to reverse (1) for every speed < 0.  The output keeps
\* that level until the next call.
C22_DirectionOutput ==
    /\ [][(mpc = "ss_direction" /\ mpc' # "ss_direction")
            => /\ m_direction # None => dir_pin' = Val(m_direction)
               /\ (m_direction = None /\ m_speed >= 0) => dir_pin' = 0
               /\ (m_direction = None /\ m_speed < 0) => dir_pin' = 1]_vars
    /\ []((m_op = "set_speed" /\ mpc # "ss_direction")
            => /\ m_direction # None => dir_pin = Val(m_direction)
               /\ (m_direction = None /\ m_speed >= 0) => dir_pin = 0
               /\ (m_direction = None /\ m_speed < 0) => dir_pin = 1)

\* set_speed has returned from a call with a negative speed and the
\* explicit direction 0, and the motor runs forward.
C22_Witness ==
    /\ m_op = "set_speed"
    /\ mpc = "returned"
    /\ m_speed < 0
    /\ m_direction = Some(0)
    /\ dir_pin = 0
    /\ Active


\* C23: stop() is idempotent.  From every actuator state a call of stop()
\* ends with the driver enable off and the pulse generator inactive and
\* changes neither the direction output nor the programmed frequency; called
\* on a Disabled actuator (as a second stop in a row is) it changes nothing
\* of the actuator, so any number of stops in a row yields the state the
\* first one left.
C23_StopIdempotent ==
    [][m_op' = "stop"
         => /\ en_pin' = 1
            /\ sm_active' = 0
            /\ dir_pin' = dir_pin
            /\ sm_freq' = sm_freq
            /\ (en_pin = 1 /\ sm_active = 0) => motor_vars' = motor_vars]_vars

\* stop() has been called on a motor that had been run and was Disabled
\* already when the call was made.
C23_Witness ==
    /\ m_op = "stop"
    /\ mpc = "returned"
    /\ entry_state = <<1, 0>>
    /\ sm_freq # INIT_PIO_FREQ
    /\ en_pin = 1
    /\ sm_active = 0


----------------------------------------------------------------------------
(* utils/control.py with the brew started at any point of the clock's     *)
(* cycle.  The tick period is a quarter of the clock's period, so that    *)
(* the whole cycle of ticks_ms() is a few polls long.                     *)

\* tick period 2^28 ms, 2^29 ms (two ticks), one stage Hold(2^29 ms, 3.0 bar)
WrapProfile == Profile(2 ^ 28, 2 ^ 29, <<Hold(2 ^ 29, 3 * Scale)>>)

\* ticks_ms() when the first execute_brew is called: 0, and one, two and
\* three tick periods before the clock wraps
WrapStartClocks ==
    {0, TicksPeriod - 2 ^ 28, TicksPeriod - 2 * 2 ^ 28, TicksPeriod - 3 * 2 ^ 28}

WrapScenarios ==
    { [Scenario(WrapProfile, pid, sens, Punctual(WrapProfile)) EXCEPT !.start_clock = c] :
        pid \in {PidDefaults, PidTuned},
        sens \in {SteadySensors, FaultySensors},
        c \in WrapStartClocks }

InitWrap ==
    /\ scen \in WrapScenarios
    /\ Constructed

NextWrap ==
    \/ ExecuteBrew
    \/ BrewCycle
    \/ BrewCycleLog
    \/ BrewCycleRaise
    \/ WaitPoll
    \/ NextTick
    \/ SetSpeedStep

\* The program keeps running and the clock keeps advancing: a step that
\* can be taken is taken.
SpecWrap == InitWrap /\ [][NextWrap]_vars /\ WF_vars(NextWrap)

\* C25: whatever ticks_ms() reads when the brew starts, also when
\* start_time + duration lies beyond the wrap-around of the clock, a running
\* execute_brew comes to its end (by returning, or by an error of a tick).
C25_BrewTerminates ==
    BrewRunning ~> ~BrewRunning


----------------------------------------------------------------------------
(* The actuator between Motor operations, under SpecMotor *)

\* C26: after construction and after every completed Motor operation
\* (set_speed returned, set_speed raised, stop, home) the driver enable
\* output is energized (en_pin 0) exactly when the pulse state machine is
\* active; directly after construction both are off.
C26_EnableIffActive ==
    /\ MotorIdle => ((en_pin = 0) <=> (sm_active = 1))
    /\ mpc = "none" => (en_pin = 1 /\ sm_active = 0)

\* set_speed has raised out of a call made on a running motor, and the
\* state machine's frequency is still the one programmed before.
C26_Witness ==
    /\ m_op = "set_speed"
    /\ mpc = "raised"
    /\ entry_state = <<0, 1>>
    /\ en_pin = 1
    /\ sm_active = 0
    /\ sm_freq # PioFrequency(m_speed)


----------------------------------------------------------------------------
(* Controller state across brews, under Spec *)

\* C27: execute_brew resets nothing.  Its entry leaves the shot log and the
\* PID's integral_sum and previous_error as they are, and nothing changes the
\* PID between two brews, so the first tick of a second brew updates the PID
\* from what the last tick of the first left; the entries of a later brew
\* follow those of the earlier ones, the first of them with elapsed time 0.
C27_NoResetBetweenBrews ==
    /\ [][brews' # brews
            => /\ shot_log' = shot_log
               /\ log_base' = Len(shot_log)
               /\ integral_sum' = integral_sum
               /\ previous_error' = previous_error]_vars
    /\ [][~BrewRunning => pid_vars' = pid_vars]_vars
    /\ [][(pc = "tick" /\ pc' = "cycle")
            => /\ integral_sum'
                    = Max(scen.pid_parameters.negative_wind_up,
                          Min(integral_sum + previous_error',
                              scen.pid_parameters.positive_wind_up))
               /\ pid_output' = PidOutput(scen.pid_parameters, integral_sum',
                                          previous_error, previous_error')]_vars
    /\ [](Len(shot_log) > log_base => shot_log[log_base + 1][1] = 0)

\* The first tick of a second brew has updated the PID, earlier entries are
\* in the log, and the integral is not what a PID at rest would have now.
C27_Witness ==
    /\ brews = 2
    /\ pc = "cycle"
    /\ current_loop_time_ms = 0
    /\ log_base > 0
    /\ Len(shot_log) = log_base
    /\ shot_log[log_base][1] > 0
    /\ integral_sum # previous_error
    /\ integral_sum # scen.pid_parameters.positive_wind_up
    /\ integral_sum # scen.pid_parameters.negative_wind_up

====
